---- MODULE Spec2Model ----
(***************************************************************************)
(* A model of the NEORV32 UART driver, sw/lib/source/neorv32_uart.c:        *)
(* the numeric converters, put_string, the format engine and the line      *)
(* scanner.                                                                *)
(*                                                                         *)
(* Bytes are the integers 0..255 and strings are sequences of bytes.  A    *)
(* uint32_t is the pair <<hi, lo>> of its two 16-bit halves, because the   *)
(* values 2^31 .. 2^32 - 1 do not fit the model checker's integers; the    *)
(* 32-bit operations of the code (x % 10, x / 10, x >> 4*i, -n) are        *)
(* computed on the halves and wrap at 2^32 as the machine does.            *)
(***************************************************************************)
EXTENDS Integers, Sequences, FiniteSets, TLC

(***************************************************************************)
(* Bounds of the model.                                                    *)
(***************************************************************************)
\* low halves 0..MaxSmall are among the sampled 32-bit inputs
MaxSmall == 11
\* longest string handed to put_string (bytes before the terminator)
MaxStr == 4
\* bytes of memory the format pointer may walk, the last one a terminator
\* (every such memory is tried, and every pair of argument directives besides)
MaxFmt == 4
\* the same, where the numeric directives run on the wide range of numbers
MaxNumFmt == 3
\* bytes the receiver delivers in one run of the line scanner
MaxIn == 5
\* largest capacity of the scan buffer
MaxCap == 3
\* bytes the receiver holds that neorv32_uart_getc has not fetched yet
RxDepth == 1
\* entries of the transmit FIFO
TxDepth == 2
\* calls of neorv32_uart_putc in one run
MaxPut == 4
\* enable / disable / rtscts calls followed after one setup
MaxToggles == 2

(***************************************************************************)
(* Character codes used by the source.                                     *)
(***************************************************************************)
NUL == 0
BS == 8
LF == 10
CR == 13
US == 31
SPACE == 32
PERCENT == 37
MINUS == 45
ZERO == 48
UpperX == 88
LowerA == 97
LowerC == 99
LowerD == 100
LowerI == 105
LowerP == 112
LowerQ == 113
LowerS == 115
LowerU == 117
LowerX == 120
LowerZ == 122
TILDE == 126
DEL == 127
HighByte == 200
CaseDelta == 32

\* static const char numbers[] = "0123456789"
numbers == <<48, 49, 50, 51, 52, 53, 54, 55, 56, 57>>
\* static const char symbols[] = "0123456789abcdef"
symbols == <<48, 49, 50, 51, 52, 53, 54, 55, 56, 57, 97, 98, 99, 100, 101, 102>>

(***************************************************************************)
(* uint32_t as two 16-bit halves.                                          *)
(***************************************************************************)
Half == 65536
SignBit == 32768

\* x % 10 of a uint32_t
Mod10(x) == ((x[1] % 10) * Half + x[2]) % 10

\* x / 10 of a uint32_t (long division by halves)
Div10(x) == <<x[1] \div 10, ((x[1] % 10) * Half + x[2]) \div 10>>

RECURSIVE Pow16(_)
Pow16(k) == IF k = 0 THEN 1 ELSE 16 * Pow16(k - 1)

\* (x >> (4*i)) & 0x0f of a uint32_t, i in 0..7
Nibble(x, i) == IF i < 4 THEN (x[2] \div Pow16(i)) % 16
                         ELSE (x[1] \div Pow16(i - 4)) % 16

\* n < 0 of the int32_t whose bits are x
IsNegative(x) == x[1] >= SignBit

\* -n of an int32_t as the RISC-V neg instruction computes it: 2^32 - x, wrapped
Negate(x) == IF x[2] = 0 THEN <<(Half - x[1]) % Half, 0>>
                         ELSE <<Half - 1 - x[1], Half - x[2]>>

\* the int32_t whose negation overflows
IntMin == <<SignBit, 0>>

\* (char) of a 32-bit word: its low byte
LowByte(x) == x[2] % 256

(***************************************************************************)
(* The conversion scratch: char string_buf[12] of neorv32_uart_vprintf,    *)
(* followed in the model by GuardLen bytes of the caller's frame, so that  *)
(* a write past the array shows.                                           *)
(***************************************************************************)
StringBufSize == 12
GuardLen == 2
StackTop == StringBufSize + GuardLen - 1

\* a byte of the scratch that nothing has written yet
Undef == -1

\* the memory m as a read of its first n bytes finds it: a byte nothing has
\* written reads as some value j
ReadTo(n, m, j) == [k \in DOMAIN m |-> IF k < n /\ m[k] = Undef THEN j ELSE m[k]]

(***************************************************************************)
(* __neorv32_uart_itoa(x, res)                                             *)
(***************************************************************************)
\* for (i=0; i<10; i++) { buffer1[i] = numbers[x%10]; x /= 10; }
RECURSIVE ItoaConvert(_, _, _)
ItoaConvert(x, i, buffer1) ==
  IF i < 10
    THEN ItoaConvert(Div10(x), i + 1, [buffer1 EXCEPT ![i] = numbers[Mod10(x) + 1]])
    ELSE buffer1

\* the blanking loop without its stop at index 0: for (i=9; i>=0; i--)
RECURSIVE ItoaBlankAll(_, _)
ItoaBlankAll(buffer1, i) ==
  IF buffer1[i] = ZERO
    THEN IF i = 0 THEN <<[buffer1 EXCEPT ![0] = NUL], 0>>
                  ELSE ItoaBlankAll([buffer1 EXCEPT ![i] = NUL], i - 1)
    ELSE <<buffer1, i>>

\* for (i=9; i!=0; i--) { if (buffer1[i] == '0') buffer1[i] = '\0'; else break; }
\* gives the buffer and the i the loop ends with
RECURSIVE ItoaBlank(_, _)
ItoaBlank(buffer1, i) ==
  IF i # 0 /\ buffer1[i] = ZERO
    THEN ItoaBlank([buffer1 EXCEPT ![i] = NUL], i - 1)
    ELSE <<buffer1, i>>

\* j = 0; do { if (buffer1[i] != '\0') res[j++] = buffer1[i]; } while (i--);
\* gives res and the j the loop ends with
RECURSIVE ItoaReverse(_, _, _, _)
ItoaReverse(buffer1, i, res, j) ==
  LET keep == buffer1[i] # NUL
      res2 == IF keep THEN [res EXCEPT ![j] = buffer1[i]] ELSE res
      j2   == IF keep THEN j + 1 ELSE j
  IN  IF i # 0 THEN ItoaReverse(buffer1, i - 1, res2, j2) ELSE <<res2, j2>>

\* the buffer res points to, after the call
itoa(x, res) ==
  LET b0 == [k \in 0..10 |-> NUL]
      r0 == [res EXCEPT ![10] = NUL]
      b1 == ItoaConvert(x, 0, b0)
      bl == ItoaBlank(b1, 9)
      rv == ItoaReverse(bl[1], bl[2], r0, 0)
  IN  [rv[1] EXCEPT ![rv[2]] = NUL]

(***************************************************************************)
(* __neorv32_uart_tohex(x, res)                                            *)
(***************************************************************************)
\* the nibble loop writing res[i] in place of res[7-i]
RECURSIVE TohexLoopUnmirrored(_, _, _)
TohexLoopUnmirrored(x, i, res) ==
  IF i < 8
    THEN TohexLoopUnmirrored(x, i + 1, [res EXCEPT ![i] = symbols[Nibble(x, i) + 1]])
    ELSE res

\* for (i=0; i<8; i++) { res[7-i] = symbols[(x >> (4*i)) & 0x0f]; }
RECURSIVE TohexLoop(_, _, _)
TohexLoop(x, i, res) ==
  IF i < 8
    THEN TohexLoop(x, i + 1, [res EXCEPT ![7 - i] = symbols[Nibble(x, i) + 1]])
    ELSE res

tohex(x, res) == [TohexLoop(x, 0, res) EXCEPT ![8] = NUL]

(***************************************************************************)
(* __neorv32_uart_touppercase(len, ptr)                                    *)
(***************************************************************************)
RECURSIVE ToUpperFrom(_, _, _)
ToUpperFrom(n, ptr, k) ==
  IF n > 0
    THEN LET tmp == ptr[k]
         IN  ToUpperFrom(n - 1,
                         IF tmp >= LowerA /\ tmp <= LowerZ
                           THEN [ptr EXCEPT ![k] = tmp - CaseDelta]
                           ELSE ptr,
                         k + 1)
    ELSE ptr

\* the case-fold with (tmp > 'a') in place of (tmp >= 'a')
RECURSIVE ToUpperFromAboveA(_, _, _)
ToUpperFromAboveA(n, ptr, k) ==
  IF n > 0
    THEN LET tmp == ptr[k]
         IN  ToUpperFromAboveA(n - 1,
                               IF tmp > LowerA /\ tmp <= LowerZ
                                 THEN [ptr EXCEPT ![k] = tmp - CaseDelta]
                                 ELSE ptr,
                               k + 1)
    ELSE ptr

touppercaseAboveA(n, ptr) == ToUpperFromAboveA(n, ptr, 0)

\* while (len > 0) { tmp = *ptr; if (tmp in 'a'..'z') *ptr = tmp - 32; ptr++; len--; }
touppercase(n, ptr) == ToUpperFrom(n, ptr, 0)

\* the len the %X directive passes: __neorv32_uart_touppercase(11, string_buf)
UpperLen == 11

(***************************************************************************)
(* neorv32_uart_puts(UARTx, s): the bytes handed to neorv32_uart_putc, for *)
(* the string that starts at index i of the memory m.                      *)
(***************************************************************************)
\* put_string sending the carriage-return after the line-feed
RECURSIVE putsLfCr(_, _)
putsLfCr(m, i) ==
  IF i \notin DOMAIN m THEN <<>>
  ELSE LET c == m[i]
       IN  IF c = NUL THEN <<>>
           ELSE <<c>> \o (IF c = LF THEN <<CR>> ELSE <<>>) \o putsLfCr(m, i + 1)

RECURSIVE puts(_, _)
puts(m, i) ==
  IF i \notin DOMAIN m THEN <<>>
  ELSE LET c == m[i]
       IN  IF c = NUL THEN <<>>
           ELSE (IF c = LF THEN <<CR>> ELSE <<>>) \o <<c>> \o puts(m, i + 1)

(***************************************************************************)
(* State.                                                                  *)
(*   pc          where the modelled call stands                            *)
(*   tx          the bytes handed to neorv32_uart_putc so far, in order    *)
(*   string_buf  the conversion scratch and the guard bytes behind it      *)
(*   x, len, str the arguments of the converter, case-fold, put_string     *)
(*               call under way; prev is the scratch as that call found it *)
(*   format, fi  the memory the format pointer walks and its position      *)
(*   args, ap    the variadic arguments and the next one va_arg yields     *)
(*   c           the local c of neorv32_uart_vprintf / neorv32_uart_scan   *)
(*   rx          bytes received and not yet fetched by neorv32_uart_getc   *)
(*   taken       the bytes neorv32_uart_getc has returned to the scanner   *)
(*   buffer, bp  the caller's scan buffer and the offset of the moving     *)
(*               pointer buffer from its start                             *)
(*   length, max_size, echo   locals and parameters of neorv32_uart_scan;  *)
(*   erased      how often a backspace removed a character                 *)
(*   CTRL        the control register, as the set of its bits that are set *)
(*   clock, baudrate, irq_mask, prsc_sel, baud_div                         *)
(*               NEORV32_SYSINFO->CLK and the parameters and locals of     *)
(*               neorv32_uart_setup                                        *)
(*   toggles     the enable / disable / rtscts calls made since the setup  *)
(*   txfifo, wire   the bytes the transmitter holds, and those it has sent *)
(*   enq         every byte the receiver has put into its FIFO             *)
(*   seen        what the last poll of the control register has found      *)
(***************************************************************************)
VARIABLES pc, tx, string_buf, x, len, str, prev,
          format, fi, args, ap, c,
          rx, taken, buffer, bp, length, max_size, echo, erased,
          CTRL, clock, baudrate, irq_mask, prsc_sel, baud_div, toggles,
          txfifo, wire, enq, seen

convVars == <<x, len, str, prev>>
fmtVars  == <<format, fi, args, ap>>
scanVars == <<rx, taken, buffer, bp, length, max_size, echo, erased>>
regVars == <<CTRL, clock, baudrate, irq_mask, prsc_sel, baud_div, toggles>>
fifoVars == <<txfifo, wire, enq, seen>>
vars == <<pc, tx, string_buf, c, convVars, fmtVars, scanVars, regVars, fifoVars>>

\* the parts of the state a specification does not use
ConvIdle == x = <<0, 0>> /\ len = 0 /\ str = <<NUL>> /\ prev = string_buf
FmtIdle  == format = <<NUL>> /\ fi = 1 /\ args = <<>> /\ ap = 1
ScanIdle == /\ rx = <<>> /\ taken = <<>> /\ buffer = <<>> /\ bp = 0
            /\ length = 0 /\ max_size = 1 /\ echo = FALSE /\ erased = 0
RegIdle  == /\ CTRL = {} /\ clock = <<0, 0>> /\ baudrate = <<0, 0>>
            /\ irq_mask = {} /\ prsc_sel = 0 /\ baud_div = <<0, 0>> /\ toggles = <<>>
FifoIdle == txfifo = <<>> /\ wire = <<>> /\ enq = <<>> /\ seen = "none"

(***************************************************************************)
(* Inputs of the converters.                                               *)
(***************************************************************************)
HiSamples == {0, 1, 2, 152, 15258, 32767, 32768, 43981, 61035, 65535}
LoSamples == (0..MaxSmall) \cup {99, 100, 255, 4660, 9999, 10000, 10240, 34463,
                                 34464, 48879, 51711, 51712, 65526, 65535}
U32Samples == HiSamples \X LoSamples

\* what an uninitialised or stale scratch byte may hold
JunkBytes == {0, 65, 96, 97, 122, 123}
Scratches == {[k \in 0..StackTop |-> pat[k % 3]] : pat \in [0..2 -> JunkBytes]}

PutsBytes == {LF, CR, PERCENT, LowerA}
PutsStrings == UNION {[1..n -> PutsBytes] : n \in 0..MaxStr}

(***************************************************************************)
(* The converters, the case-fold and put_string, each called on its own.    *)
(***************************************************************************)
ConvInit ==
  /\ pc = "idle" /\ tx = <<>> /\ c = NUL
  /\ string_buf \in Scratches
  /\ ConvIdle /\ FmtIdle /\ ScanIdle /\ RegIdle /\ FifoIdle

CallItoa ==
  /\ pc = "idle"
  /\ \E v \in U32Samples :
       /\ x' = v
       /\ string_buf' = itoa(v, string_buf)
  /\ prev' = string_buf
  /\ pc' = "itoa"
  /\ UNCHANGED <<tx, c, len, str, fmtVars, scanVars, regVars, fifoVars>>

CallTohex ==
  /\ pc = "idle"
  /\ \E v \in U32Samples :
       /\ x' = v
       /\ string_buf' = tohex(v, string_buf)
  /\ prev' = string_buf
  /\ pc' = "tohex"
  /\ UNCHANGED <<tx, c, len, str, fmtVars, scanVars, regVars, fifoVars>>

\* the case-fold as the %X directive applies it to the hex converter's output
CallUpper ==
  /\ pc = "tohex"
  /\ len' = UpperLen
  /\ string_buf' = touppercase(UpperLen, string_buf)
  /\ prev' = string_buf
  /\ pc' = "upper"
  /\ UNCHANGED <<tx, c, x, str, fmtVars, scanVars, regVars, fifoVars>>

\* the case-fold on any range of the scratch, and once more on its own result
CallFold ==
  /\ pc = "idle"
  /\ \E n \in 0..StringBufSize :
       /\ len' = n
       /\ string_buf' = touppercase(n, string_buf)
  /\ prev' = string_buf
  /\ pc' = "fold"
  /\ UNCHANGED <<tx, c, x, str, fmtVars, scanVars, regVars, fifoVars>>

CallFoldAgain ==
  /\ pc = "fold"
  /\ string_buf' = touppercase(len, string_buf)
  /\ prev' = string_buf
  /\ pc' = "fold2"
  /\ UNCHANGED <<tx, c, x, len, str, fmtVars, scanVars, regVars, fifoVars>>

\* put_string on a zero-terminated string; a byte of other data follows it
CallPuts ==
  /\ pc = "idle"
  /\ \E s \in PutsStrings :
       /\ str' = s \o <<NUL, LowerA>>
       /\ tx' = tx \o puts(s \o <<NUL, LowerA>>, 1)
  /\ pc' = "puts"
  /\ UNCHANGED <<string_buf, c, x, len, prev, fmtVars, scanVars, regVars, fifoVars>>

ConvNext == CallItoa \/ CallTohex \/ CallUpper \/ CallFold \/ CallFoldAgain

SpecConv == ConvInit /\ [][ConvNext]_vars

(***************************************************************************)
(* neorv32_uart_vprintf(UARTx, format, args)                               *)
(*                                                                         *)
(* format is the memory the pointer walks: the format string, its          *)
(* terminator, and whatever bytes lie behind it.  The variadic arguments   *)
(* are 32-bit words; a word handed to %s is the address of a string.       *)
(***************************************************************************)
FmtBytes == {NUL, LF, PERCENT, LowerA, LowerC, LowerD, LowerI, LowerP, LowerQ,
             LowerS, LowerU, LowerX, UpperX}
FormatsUpTo(n) ==
  {g \o <<NUL>> : g \in UNION {[1..k -> FmtBytes] : k \in 0..(n - 1)}}

\* the directives that consume an argument
ArgDirectives == {LowerS, LowerC, LowerD, LowerI, LowerU, LowerX, UpperX, LowerP}

\* addresses of the strings the caller owns, and the memory at each
PtrLine == <<8192, 256>>
PtrEmpty == <<8192, 272>>
Pointers == {PtrLine, PtrEmpty}
StrMem(p) == IF p = PtrLine THEN <<LowerQ, LF, NUL, LowerA>> ELSE <<NUL, LowerA>>

FmtWords == {<<0, 10>>, <<0, 255>>, IntMin, <<65535, 65526>>}
NumWords == {0, 1, 15258, 32767, 32768, 65535} \X {0, 1, 10, 255, 51712, 65526, 65535}
PadWord == <<0, 0>>
MaxArgs == IF MaxFmt < 5 THEN 2 ELSE (MaxFmt - 1) \div 2

\* the formats of two directives that each consume an argument
DirectivePairs ==
  {<<PERCENT, d, PERCENT, e, NUL>> : d \in ArgDirectives, e \in ArgDirectives}

\* the argument-consuming directives the walk over the memory f meets from index i on
RECURSIVE Directives(_, _)
Directives(f, i) ==
  IF i > Len(f) \/ f[i] = NUL THEN <<>>
  ELSE IF f[i] # PERCENT THEN Directives(f, i + 1)
  ELSE IF i + 1 > Len(f) THEN <<>>
  ELSE (IF f[i + 1] \in ArgDirectives THEN <<f[i + 1]>> ELSE <<>>) \o Directives(f, i + 2)

\* the argument lists a caller may pass with f: one word per directive, a string's
\* address for each %s (anything else is undefined by the va_arg contract)
ArgLists(f, words) ==
  LET d == Directives(f, 1)
  IN  {a \in [1..MaxArgs -> words \cup Pointers \cup {PadWord}] :
         \A k \in 1..MaxArgs :
           IF k <= Len(d)
             THEN IF d[k] = LowerS THEN a[k] \in Pointers ELSE a[k] \in words \cup Pointers
             ELSE a[k] = PadWord}

VpCall(formats, words) ==
  /\ pc = "idle"
  /\ \E f \in formats :
       /\ Len(Directives(f, 1)) <= MaxArgs
       /\ \E a \in ArgLists(f, words) :
            /\ format' = f
            /\ args' = a
  /\ fi' = 1 /\ ap' = 1
  /\ pc' = "run"
  /\ UNCHANGED <<tx, string_buf, c, convVars, scanVars, regVars, fifoVars>>

\* the byte *format++ reads, and the one the second *format++ reads after a '%'
Cur == format[fi]
Dir == format[fi + 1]
InDirective == pc = "run" /\ fi + 1 <= Len(format) /\ Cur = PERCENT

\* while ((c = *format++)) ends on the terminator
VpReturn ==
  /\ pc = "run" /\ fi <= Len(format) /\ Cur = NUL
  /\ c' = NUL /\ fi' = fi + 1
  /\ pc' = "done"
  /\ UNCHANGED <<tx, string_buf, args, ap, format, convVars, scanVars, regVars, fifoVars>>

\* the literal branch without its carriage-return
VpLiteralNoCr ==
  /\ pc = "run" /\ fi <= Len(format) /\ Cur \notin {NUL, PERCENT}
  /\ c' = Cur /\ fi' = fi + 1
  /\ tx' = tx \o <<Cur>>
  /\ UNCHANGED <<pc, string_buf, args, ap, format, convVars, scanVars, regVars, fifoVars>>

\* else { if (c == '\n') putc('\r'); putc(c); }
VpLiteral ==
  /\ pc = "run" /\ fi <= Len(format) /\ Cur \notin {NUL, PERCENT}
  /\ c' = Cur /\ fi' = fi + 1
  /\ tx' = tx \o (IF Cur = LF THEN <<CR>> ELSE <<>>) \o <<Cur>>
  /\ UNCHANGED <<pc, string_buf, args, ap, format, convVars, scanVars, regVars, fifoVars>>

\* case 's': neorv32_uart_puts(UARTx, va_arg(args, char*));
VpString ==
  /\ InDirective /\ Dir = LowerS
  /\ c' = Dir /\ fi' = fi + 2
  /\ tx' = tx \o puts(StrMem(args[ap]), 1)
  /\ ap' = ap + 1
  /\ UNCHANGED <<pc, string_buf, args, format, convVars, scanVars, regVars, fifoVars>>

\* the %c case without its va_arg: the argument is read but not consumed
VpCharKeepsArg ==
  /\ InDirective /\ Dir = LowerC
  /\ c' = Dir /\ fi' = fi + 2
  /\ tx' = tx \o <<LowByte(args[ap])>>
  /\ UNCHANGED <<pc, string_buf, args, ap, format, convVars, scanVars, regVars, fifoVars>>

\* case 'c': neorv32_uart_putc(UARTx, (char)va_arg(args, int));
VpChar ==
  /\ InDirective /\ Dir = LowerC
  /\ c' = Dir /\ fi' = fi + 2
  /\ tx' = tx \o <<LowByte(args[ap])>>
  /\ ap' = ap + 1
  /\ UNCHANGED <<pc, string_buf, args, format, convVars, scanVars, regVars, fifoVars>>

\* the %d case printing the sign but forgetting n = -n
VpSignedNoNegate ==
  /\ InDirective /\ Dir \in {LowerI, LowerD}
  /\ c' = Dir /\ fi' = fi + 2
  /\ LET n   == args[ap]
         buf == itoa(n, string_buf)
     IN  /\ string_buf' = buf
         /\ tx' = tx \o (IF IsNegative(n) THEN <<MINUS>> ELSE <<>>) \o puts(buf, 0)
  /\ ap' = ap + 1
  /\ UNCHANGED <<pc, args, format, convVars, scanVars, regVars, fifoVars>>

\* case 'i': case 'd': n = va_arg; if (n < 0) { n = -n; putc('-'); } itoa(n); puts
VpSigned ==
  /\ InDirective /\ Dir \in {LowerI, LowerD}
  /\ c' = Dir /\ fi' = fi + 2
  /\ LET n   == args[ap]
         mag == IF IsNegative(n) THEN Negate(n) ELSE n
         buf == itoa(mag, string_buf)
     IN  /\ string_buf' = buf
         /\ tx' = tx \o (IF IsNegative(n) THEN <<MINUS>> ELSE <<>>) \o puts(buf, 0)
  /\ ap' = ap + 1
  /\ UNCHANGED <<pc, args, format, convVars, scanVars, regVars, fifoVars>>

\* n = -n overflows for the minimum int32_t, which the C standard leaves undefined:
\* the neg instruction wraps (VpSigned), a build that traps on signed overflow stops
VpSignedTrap ==
  /\ InDirective /\ Dir \in {LowerI, LowerD}
  /\ args[ap] = IntMin
  /\ c' = Dir /\ fi' = fi + 2
  /\ ap' = ap + 1
  /\ pc' = "trap"
  /\ UNCHANGED <<tx, string_buf, args, format, convVars, scanVars, regVars, fifoVars>>

\* case 'u': itoa(va_arg(args, uint32_t), string_buf); puts(string_buf);
VpUnsigned ==
  /\ InDirective /\ Dir = LowerU
  /\ c' = Dir /\ fi' = fi + 2
  /\ LET buf == itoa(args[ap], string_buf)
     IN  /\ string_buf' = buf
         /\ tx' = tx \o puts(buf, 0)
  /\ ap' = ap + 1
  /\ UNCHANGED <<pc, args, format, convVars, scanVars, regVars, fifoVars>>

\* case 'x': case 'p': case 'X': tohex; if (c == 'X') touppercase(11, ..); puts
\* (the case-fold reads bytes 9 and 10 of the scratch, which nothing may have written)
VpHex ==
  /\ InDirective /\ Dir \in {LowerX, LowerP, UpperX}
  /\ c' = Dir /\ fi' = fi + 2
  /\ \E j \in JunkBytes :
       LET hex == tohex(args[ap], string_buf)
           buf == IF Dir = UpperX THEN touppercase(UpperLen, ReadTo(UpperLen, hex, j))
                                  ELSE hex
       IN  /\ string_buf' = buf
           /\ tx' = tx \o puts(buf, 0)
  /\ ap' = ap + 1
  /\ UNCHANGED <<pc, args, format, convVars, scanVars, regVars, fifoVars>>

\* case '%': neorv32_uart_putc(UARTx, '%');
VpPercent ==
  /\ InDirective /\ Dir = PERCENT
  /\ c' = Dir /\ fi' = fi + 2
  /\ tx' = tx \o <<PERCENT>>
  /\ UNCHANGED <<pc, string_buf, args, ap, format, convVars, scanVars, regVars, fifoVars>>

\* the default case sending only the character, without the '%'
VpDefaultNoPercent ==
  /\ InDirective /\ Dir \notin ArgDirectives \cup {PERCENT}
  /\ c' = Dir /\ fi' = fi + 2
  /\ tx' = tx \o <<Dir>>
  /\ UNCHANGED <<pc, string_buf, args, ap, format, convVars, scanVars, regVars, fifoVars>>

\* default: neorv32_uart_putc(UARTx, '%'); neorv32_uart_putc(UARTx, c);
VpDefault ==
  /\ InDirective /\ Dir \notin ArgDirectives \cup {PERCENT}
  /\ c' = Dir /\ fi' = fi + 2
  /\ tx' = tx \o <<PERCENT, Dir>>
  /\ UNCHANGED <<pc, string_buf, args, ap, format, convVars, scanVars, regVars, fifoVars>>

\* the pointer has left the memory the model holds: what the next read yields
\* is not defined by the model
VpStray ==
  /\ pc = "run" /\ fi > Len(format)
  /\ pc' = "stray"
  /\ UNCHANGED <<tx, string_buf, c, args, ap, format, fi, convVars, scanVars, regVars, fifoVars>>

VpStep == \/ VpReturn \/ VpLiteral \/ VpString \/ VpChar \/ VpSigned \/ VpSignedTrap
          \/ VpUnsigned \/ VpHex \/ VpPercent \/ VpDefault \/ VpStray

\* char string_buf[12] is a local without initialiser: every byte indeterminate
FmtInit ==
  /\ pc = "idle" /\ tx = <<>> /\ c = NUL
  /\ string_buf = [k \in 0..StackTop |-> Undef]
  /\ ConvIdle /\ FmtIdle /\ ScanIdle /\ RegIdle /\ FifoIdle

FmtNext == CallPuts \/ VpCall(FormatsUpTo(MaxFmt) \cup DirectivePairs, FmtWords) \/ VpStep

SpecFmt == FmtInit /\ [][FmtNext]_vars

\* the same engine on short formats and a wide range of numbers
NumNext == CallPuts \/ VpCall(FormatsUpTo(MaxNumFmt), NumWords) \/ VpStep

SpecFmtNum == FmtInit /\ [][NumNext]_vars

(***************************************************************************)
(* neorv32_uart_scan(UARTx, buffer, max_size, echo)                        *)
(*                                                                         *)
(* The receiver delivers bytes into rx; neorv32_uart_getc blocks until rx  *)
(* holds one and returns the oldest.  One action is one pass of the        *)
(* while (1) loop, the blocking getc included.  The buffer is the caller's *)
(* max_size bytes, nothing written yet, and one guard byte behind them.    *)
(***************************************************************************)
ScanBytes == {BS, CR, US, SPACE, TILDE, DEL, HighByte}
LiveBytes == {BS, CR, US, SPACE}

ScanInit ==
  /\ pc = "scan" /\ tx = <<>> /\ c = NUL
  /\ max_size \in 1..MaxCap
  /\ echo \in BOOLEAN
  /\ buffer = [k \in 0..max_size |-> Undef]
  /\ bp = 0 /\ length = 0 /\ erased = 0
  /\ rx = <<>> /\ taken = <<>>
  /\ string_buf = [k \in 0..StackTop |-> Undef]
  /\ ConvIdle /\ FmtIdle /\ RegIdle /\ FifoIdle

\* the receiver takes one more byte off the line
RxArrive(bytes) ==
  /\ Len(rx) < RxDepth
  /\ Len(taken) + Len(rx) < MaxIn
  /\ \E b \in bytes : rx' = Append(rx, b)
  /\ UNCHANGED <<pc, tx, string_buf, c, taken, buffer, bp, length, max_size, echo,
                 erased, convVars, fmtVars, regVars, fifoVars>>

\* c = neorv32_uart_getc(UARTx) returns the oldest byte once there is one
Getc(b) ==
  /\ pc = "scan" /\ rx # <<>>
  /\ b = Head(rx)
  /\ rx' = Tail(rx)
  /\ taken' = Append(taken, b)
  /\ c' = b

\* the erase sequence "\b \b" of the echo
EraseSeq == <<BS, SPACE, BS, NUL>>

\* the backspace case without its buffer--: the length shrinks, the pointer stays
ScanBackspaceKeepsPointer ==
  /\ Getc(BS)
  /\ IF length # 0
       THEN /\ tx' = IF echo THEN tx \o puts(EraseSeq, 1) ELSE tx
            /\ length' = length - 1
            /\ erased' = erased + 1
       ELSE UNCHANGED <<tx, length, erased>>
  /\ UNCHANGED <<pc, string_buf, buffer, bp, max_size, echo, convVars, fmtVars, regVars, fifoVars>>

\* if (c == '\b') { if (length != 0) { if (echo) puts("\b \b"); buffer--; length--; } }
ScanBackspace ==
  /\ Getc(BS)
  /\ IF length # 0
       THEN /\ tx' = IF echo THEN tx \o puts(EraseSeq, 1) ELSE tx
            /\ bp' = bp - 1
            /\ length' = length - 1
            /\ erased' = erased + 1
       ELSE UNCHANGED <<tx, bp, length, erased>>
  /\ UNCHANGED <<pc, string_buf, buffer, max_size, echo, convVars, fmtVars, regVars, fifoVars>>

\* the carriage-return case honoured only once something has been typed
ScanReturnIfTyped ==
  /\ Getc(CR)
  /\ length # 0
  /\ buffer' = [buffer EXCEPT ![bp] = NUL]
  /\ pc' = "done"
  /\ UNCHANGED <<tx, string_buf, bp, length, max_size, echo, erased, convVars, fmtVars,
                 regVars, fifoVars>>

\* else if (c == '\r') break;  ...  *buffer = '\0'; return length;
ScanReturn ==
  /\ Getc(CR)
  /\ buffer' = [buffer EXCEPT ![bp] = NUL]
  /\ pc' = "done"
  /\ UNCHANGED <<tx, string_buf, bp, length, max_size, echo, erased, convVars, fmtVars,
                 regVars, fifoVars>>

\* the test with (length < max_size) in place of (length < (max_size-1))
AcceptsUpToSize(b) == b >= SPACE /\ b <= TILDE /\ length < max_size

\* (c >= ' ') && (c <= '~') && (length < (max_size-1))
Accepts(b) == b >= SPACE /\ b <= TILDE /\ length < max_size - 1

\* the accepting case echoing whether or not echo is set
ScanAcceptEchoesAlways ==
  /\ \E b \in ScanBytes \ {BS, CR} :
       /\ Getc(b)
       /\ Accepts(b)
       /\ tx' = Append(tx, b)
       /\ buffer' = [buffer EXCEPT ![bp] = b]
  /\ bp' = bp + 1
  /\ length' = length + 1
  /\ UNCHANGED <<pc, string_buf, max_size, echo, erased, convVars, fmtVars, regVars, fifoVars>>

\* else if (...) { if (echo) putc(c); *buffer++ = c; length++; }
ScanAccept ==
  /\ \E b \in ScanBytes \ {BS, CR} :
       /\ Getc(b)
       /\ Accepts(b)
       /\ tx' = IF echo THEN Append(tx, b) ELSE tx
       /\ buffer' = [buffer EXCEPT ![bp] = b]
  /\ bp' = bp + 1
  /\ length' = length + 1
  /\ UNCHANGED <<pc, string_buf, max_size, echo, erased, convVars, fmtVars, regVars, fifoVars>>

\* any other byte falls through the if chain
ScanDrop ==
  /\ \E b \in ScanBytes \ {BS, CR} :
       /\ Getc(b)
       /\ ~Accepts(b)
  /\ UNCHANGED <<pc, tx, string_buf, buffer, bp, length, max_size, echo, erased,
                 convVars, fmtVars, regVars, fifoVars>>

ScanStep == ScanBackspace \/ ScanReturn \/ ScanAccept \/ ScanDrop

ScanNext == RxArrive(ScanBytes) \/ ScanStep

SpecScan == ScanInit /\ [][ScanNext]_vars

\* the same scanner on fewer byte values; the processor keeps executing the
\* polling loop, so a pass of the loop that can run does run
LiveNext == RxArrive(LiveBytes) \/ ScanStep

FairScan == ScanInit /\ [][LiveNext]_vars /\ WF_vars(ScanStep)

(***************************************************************************)
(* The control register and neorv32_uart_setup(UARTx, baudrate, irq_mask). *)
(*                                                                         *)
(* The source names the bits of the control register by the enumerators    *)
(* UART_CTRL_*, whose values its header sets.  A bit is the pair of an     *)
(* enumerator and an offset, <<"UART_CTRL_PRSC0", 1>> being the bit        *)
(* UART_CTRL_PRSC0 + 1, and a register value is the set of its set bits:   *)
(* v << UART_CTRL_PRSC0 puts bit k of v on <<"UART_CTRL_PRSC0", k>>.  The  *)
(* 32-bit values of the divisor search are pairs of 16-bit halves.         *)
(* The builds with UART0_SIM_MODE or UART1_SIM_MODE are not modelled.      *)
(***************************************************************************)
UART_CTRL_EN == <<"UART_CTRL_EN", 0>>
UART_CTRL_HWFC_EN == <<"UART_CTRL_HWFC_EN", 0>>
UART_CTRL_SIM_MODE == <<"UART_CTRL_SIM_MODE", 0>>
UART_CTRL_PRSC0 == "UART_CTRL_PRSC0"
UART_CTRL_BAUD0 == "UART_CTRL_BAUD0"
UART_CTRL_IRQ_RX_NEMPTY == "UART_CTRL_IRQ_RX_NEMPTY"
UART_CTRL_TX_FULL == <<"UART_CTRL_TX_FULL", 0>>
UART_CTRL_RX_NEMPTY == <<"UART_CTRL_RX_NEMPTY", 0>>

\* the bits of (v << base), v below 2^11
Shifted(v, base) == {<<base, k>> : k \in {j \in 0..10 : (v \div (2 ^ j)) % 2 = 1}}

\* a >= b, a - b (wrapping), 2 * a (wrapping) and a >> n on 32-bit values
Geq32(a, b) == a[1] > b[1] \/ (a[1] = b[1] /\ a[2] >= b[2])
Sub32(a, b) ==
  LET borrow == IF a[2] < b[2] THEN 1 ELSE 0
  IN  <<(a[1] - b[1] - borrow + Half) % Half, (a[2] - b[2] + Half) % Half>>
Twice(a) == <<(2 * a[1] + (a[2] \div SignBit)) % Half, (2 * a[2]) % Half>>
Shr(a, n) ==
  <<a[1] \div (2 ^ n), (a[2] \div (2 ^ n)) + ((a[1] % (2 ^ n)) * (Half \div (2 ^ n)))>>

\* bit i of a 32-bit value, and the value with bit i set
BitOf(a, i) == IF i >= 16 THEN (a[1] \div (2 ^ (i - 16))) % 2 ELSE (a[2] \div (2 ^ i)) % 2
WithBit(q, i) == IF i >= 16 THEN <<q[1] + 2 ^ (i - 16), q[2]>> ELSE <<q[1], q[2] + 2 ^ i>>

\* a / b for b # 0, by binary long division from bit i down: q is the quotient
\* so far and r the remainder so far (r < b, so 2r + 1 stays below 2^33)
RECURSIVE DivFrom(_, _, _, _, _)
DivFrom(a, b, i, q, r) ==
  IF i < 0 THEN q
  ELSE LET r2 == <<2 * r[1] + (r[2] \div SignBit), ((2 * r[2]) % Half) + BitOf(a, i)>>
       IN  IF Geq32(r2, b)
             THEN LET borrow == IF r2[2] < b[2] THEN 1 ELSE 0
                  IN  DivFrom(a, b, i - 1, WithBit(q, i),
                              <<r2[1] - b[1] - borrow, (r2[2] - b[2] + Half) % Half>>)
             ELSE DivFrom(a, b, i - 1, q, r2)
DivU(a, b) == DivFrom(a, b, 31, <<0, 0>>, <<0, 0>>)

\* what a division by zero gives where it gives anything: all ones (RISC-V divu)
AllOnes == <<Half - 1, Half - 1>>

\* 0x3ffU, the bound of the search and the mask of the baud field
BaudMask == 1023
\* 3U, the mask of the prescaler field
PrscMask == 3

\* the system clocks, baud rates, interrupt masks and register contents tried
Clocks == {<<0, 4>>, <<0, 2046>>, <<1, 0>>, <<15, 16960>>, <<762, 61568>>,
           <<1525, 57600>>, <<SignBit, 0>>, <<Half - 1, Half - 1>>}
Bauds == {<<0, 0>>, <<0, 1>>, <<0, 2>>, <<0, 3>>, <<0, 40>>, <<0, 75>>, <<0, 110>>,
          <<0, 300>>, <<0, 1200>>, <<0, 2400>>, <<0, 9600>>, <<0, 19200>>, <<0, 38400>>,
          <<0, 57600>>, <<1, 49664>>, <<14, 4096>>, <<762, 61568>>,
          <<SignBit - 1, Half - 1>>, <<SignBit, 0>>, <<SignBit, 1>>, <<Half - 1, Half - 1>>}
IrqBits == {<<UART_CTRL_IRQ_RX_NEMPTY, k>> : k \in 0..4}
IrqMasks == {{}, IrqBits, {<<UART_CTRL_IRQ_RX_NEMPTY, 0>>, <<UART_CTRL_IRQ_RX_NEMPTY, 5>>},
             {<<UART_CTRL_IRQ_RX_NEMPTY, 4>>, UART_CTRL_HWFC_EN, UART_CTRL_EN,
              <<UART_CTRL_PRSC0, 2>>, <<UART_CTRL_BAUD0, 9>>}}
InitialCtrls == {{}, {UART_CTRL_EN, UART_CTRL_HWFC_EN},
                 {UART_CTRL_HWFC_EN, UART_CTRL_SIM_MODE, <<UART_CTRL_PRSC0, 2>>,
                  <<UART_CTRL_BAUD0, 0>>, <<UART_CTRL_IRQ_RX_NEMPTY, 1>>,
                  <<UART_CTRL_IRQ_RX_NEMPTY, 5>>}}

\* what a read of the control register yields: the bits written, with the two
\* status flags the driver polls as the FIFOs stand
CtrlRead ==
  (CTRL \ {UART_CTRL_TX_FULL, UART_CTRL_RX_NEMPTY})
    \cup (IF Len(txfifo) >= TxDepth THEN {UART_CTRL_TX_FULL} ELSE {})
    \cup (IF rx # <<>> THEN {UART_CTRL_RX_NEMPTY} ELSE {})

RegInit ==
  /\ pc = "idle" /\ tx = <<>> /\ c = NUL
  /\ string_buf = [k \in 0..StackTop |-> Undef]
  /\ CTRL \in InitialCtrls
  /\ clock \in Clocks
  /\ baudrate = <<0, 0>> /\ irq_mask = {} /\ prsc_sel = 0 /\ baud_div = <<0, 0>>
  /\ toggles = <<>>
  /\ ConvIdle /\ FmtIdle /\ ScanIdle /\ FifoIdle

\* prsc_sel = 0; baud_div = 0; UARTx->CTRL = 0;
SetupCall ==
  /\ pc = "idle"
  /\ baudrate' \in Bauds
  /\ irq_mask' \in IrqMasks
  /\ prsc_sel' = 0 /\ baud_div' = <<0, 0>>
  /\ CTRL' = {}
  /\ toggles' = <<>>
  /\ pc' = "divide"
  /\ UNCHANGED <<tx, string_buf, c, clock, convVars, fmtVars, scanVars, fifoVars>>

\* baud_div = clock / (2*baudrate);
SetupDivide ==
  /\ pc = "divide"
  /\ Twice(baudrate) # <<0, 0>>
  /\ baud_div' = DivU(clock, Twice(baudrate))
  /\ pc' = "search"
  /\ UNCHANGED <<tx, string_buf, c, CTRL, clock, baudrate, irq_mask, prsc_sel, toggles,
                 convVars, fmtVars, scanVars, fifoVars>>

\* 2*baudrate is 0 for the baud rates 0 and 2^31: the division is undefined; the
\* divide instruction gives all ones, the bootloader build's subtraction loop
\* (lines 69-72) never ends
SetupDivideByZero ==
  /\ pc = "divide"
  /\ Twice(baudrate) = <<0, 0>>
  /\ \/ baud_div' = AllOnes /\ pc' = "search"
     \/ baud_div' = baud_div /\ pc' = "trap"
  /\ UNCHANGED <<tx, string_buf, c, CTRL, clock, baudrate, irq_mask, prsc_sel, toggles,
                 convVars, fmtVars, scanVars, fifoVars>>

\* the search shifting by one bit at every prescaler-select
SetupShiftUniform ==
  /\ pc = "search"
  /\ Geq32(baud_div, <<0, BaudMask>>)
  /\ baud_div' = Shr(baud_div, 1)
  /\ prsc_sel' = prsc_sel + 1
  /\ UNCHANGED <<pc, tx, string_buf, c, CTRL, clock, baudrate, irq_mask, toggles,
                 convVars, fmtVars, scanVars, fifoVars>>

\* while (baud_div >= 0x3ffU) { if (prsc_sel == 2 || prsc_sel == 4) baud_div >>= 3;
\*                              else baud_div >>= 1;  prsc_sel++; }
SetupShift ==
  /\ pc = "search"
  /\ Geq32(baud_div, <<0, BaudMask>>)
  /\ baud_div' = IF prsc_sel \in {2, 4} THEN Shr(baud_div, 3) ELSE Shr(baud_div, 1)
  /\ prsc_sel' = prsc_sel + 1
  /\ UNCHANGED <<pc, tx, string_buf, c, CTRL, clock, baudrate, irq_mask, toggles,
                 convVars, fmtVars, scanVars, fifoVars>>

\* the value written with the interrupt mask taken as it comes
tmpUnmasked ==
  {UART_CTRL_EN}
    \cup Shifted(prsc_sel % (PrscMask + 1), UART_CTRL_PRSC0)
    \cup Shifted(Sub32(baud_div, <<0, 1>>)[2] % (BaudMask + 1), UART_CTRL_BAUD0)
    \cup irq_mask

\* tmp: (1 & 1U) << EN | (prsc_sel & 3U) << PRSC0 | ((baud_div - 1) & 0x3ffU) << BAUD0
\*      | irq_mask & (0x1fU << IRQ_RX_NEMPTY)
tmp ==
  {UART_CTRL_EN}
    \cup Shifted(prsc_sel % (PrscMask + 1), UART_CTRL_PRSC0)
    \cup Shifted(Sub32(baud_div, <<0, 1>>)[2] % (BaudMask + 1), UART_CTRL_BAUD0)
    \cup (irq_mask \cap IrqBits)

\* UARTx->CTRL = tmp;
SetupWrite ==
  /\ pc = "search"
  /\ ~Geq32(baud_div, <<0, BaudMask>>)
  /\ CTRL' = tmp
  /\ pc' = "ready"
  /\ UNCHANGED <<tx, string_buf, c, clock, baudrate, irq_mask, prsc_sel, baud_div, toggles,
                 convVars, fmtVars, scanVars, fifoVars>>

(***************************************************************************)
(* neorv32_uart_enable, _disable, _rtscts_enable, _rtscts_disable: each a  *)
(* read of the control register, one bit set or cleared, and a write.      *)
(***************************************************************************)
\* UARTx->CTRL |= ((uint32_t)(1 << UART_CTRL_EN));
neorv32_uart_enable(r) == r \cup {UART_CTRL_EN}
\* UARTx->CTRL &= ~((uint32_t)(1 << UART_CTRL_EN));
neorv32_uart_disable(r) == r \ {UART_CTRL_EN}
\* UARTx->CTRL |= ((uint32_t)(1 << UART_CTRL_HWFC_EN));
neorv32_uart_rtscts_enable(r) == r \cup {UART_CTRL_HWFC_EN}
\* neorv32_uart_rtscts_disable copied from neorv32_uart_disable, the bit not renamed
rtscts_disable_copied(r) == r \ {UART_CTRL_EN}
\* UARTx->CTRL &= ~((uint32_t)(1 << UART_CTRL_HWFC_EN));
neorv32_uart_rtscts_disable(r) == r \ {UART_CTRL_HWFC_EN}

Toggle(name, written) ==
  /\ pc \in {"idle", "ready"}
  /\ Len(toggles) < MaxToggles
  /\ CTRL' = written
  /\ toggles' = Append(toggles, name)
  /\ UNCHANGED <<pc, tx, string_buf, c, clock, baudrate, irq_mask, prsc_sel, baud_div,
                 convVars, fmtVars, scanVars, fifoVars>>

Enable == Toggle("enable", neorv32_uart_enable(CtrlRead))
Disable == Toggle("disable", neorv32_uart_disable(CtrlRead))
RtsctsEnable == Toggle("rtscts_enable", neorv32_uart_rtscts_enable(CtrlRead))
RtsctsDisable == Toggle("rtscts_disable", neorv32_uart_rtscts_disable(CtrlRead))

RegNext == \/ SetupCall \/ SetupDivide \/ SetupDivideByZero \/ SetupShift \/ SetupWrite
           \/ Enable \/ Disable \/ RtsctsEnable \/ RtsctsDisable

SpecReg == RegInit /\ [][RegNext]_vars

\* the clock and baud-rate pairs the two fields can represent: 2*baudrate does not
\* wrap, and clock / (2*baudrate) is at least 1 and below 0x3ff once shifted by the
\* 11 bits of the largest divider tap
Representable(clk, baud) ==
  /\ baud # <<0, 0>> /\ ~Geq32(baud, <<SignBit, 0>>)
  /\ Geq32(clk, Twice(baud))
  /\ ~Geq32(Shr(DivU(clk, Twice(baud)), 11), <<0, BaudMask>>)

\* neorv32_uart_setup called with such a pair only
SetupCallRepresentable == SetupCall /\ Representable(clock, baudrate')

SetupNext == SetupCallRepresentable \/ SetupDivide \/ SetupShift \/ SetupWrite

SpecSetup == RegInit /\ [][SetupNext]_vars

(***************************************************************************)
(* neorv32_uart_putc and neorv32_uart_getc against the FIFOs.              *)
(*                                                                         *)
(* The transmitter and the receiver are hardware: each FIFO is a bounded   *)
(* queue, the transmitter takes the oldest byte of txfifo onto the wire    *)
(* and the receiver puts a byte into rx whenever it likes.  A write of the *)
(* data register enters a byte unless the FIFO is full, a read takes the   *)
(* oldest byte or, the FIFO empty, yields what the register happens to     *)
(* hold.  The calls are made one after the other by the one processor.     *)
(***************************************************************************)
IoBytes == {LowerA, LowerQ}

IoInit ==
  /\ pc = "idle" /\ tx = <<>> /\ c = NUL
  /\ string_buf = [k \in 0..StackTop |-> Undef]
  /\ ConvIdle /\ FmtIdle /\ ScanIdle /\ RegIdle /\ FifoIdle

\* the transmitter sends the oldest byte it holds
HwDrain ==
  /\ txfifo # <<>>
  /\ wire' = Append(wire, Head(txfifo))
  /\ txfifo' = Tail(txfifo)
  /\ UNCHANGED <<pc, tx, string_buf, c, enq, seen, convVars, fmtVars, scanVars, regVars>>

\* the receiver puts a byte into its FIFO
HwReceive ==
  /\ Len(rx) < RxDepth
  /\ Len(enq) < MaxIn
  /\ \E b \in IoBytes :
       /\ rx' = Append(rx, b)
       /\ enq' = Append(enq, b)
  /\ UNCHANGED <<pc, tx, string_buf, c, taken, buffer, bp, length, max_size, echo, erased,
                 txfifo, wire, seen, convVars, fmtVars, regVars>>

\* UARTx->DATA = v: the byte enters the transmit FIFO unless that is full
DataWrite(v) == IF Len(txfifo) < TxDepth THEN Append(txfifo, v) ELSE txfifo

\* a call neorv32_uart_putc(UARTx, c)
PutcCall ==
  /\ pc = "idle"
  /\ Len(tx) < MaxPut
  /\ \E b \in IoBytes :
       /\ c' = b
       /\ tx' = Append(tx, b)
  /\ seen' = "none"
  /\ pc' = "tx_poll"
  /\ UNCHANGED <<string_buf, txfifo, wire, enq, convVars, fmtVars, scanVars, regVars>>

\* the wait left after one read of the control register, whatever the flag
PutcPollOnce ==
  /\ pc = "tx_poll"
  /\ seen' = IF UART_CTRL_TX_FULL \in CtrlRead THEN "full" ELSE "free"
  /\ pc' = "tx_write"
  /\ UNCHANGED <<tx, string_buf, c, txfifo, wire, enq, convVars, fmtVars, scanVars, regVars>>

\* while ((UARTx->CTRL & (1<<UART_CTRL_TX_FULL))); one read of the register
PutcPoll ==
  /\ pc = "tx_poll"
  /\ seen' = IF UART_CTRL_TX_FULL \in CtrlRead THEN "full" ELSE "free"
  /\ pc' = IF UART_CTRL_TX_FULL \in CtrlRead THEN "tx_poll" ELSE "tx_write"
  /\ UNCHANGED <<tx, string_buf, c, txfifo, wire, enq, convVars, fmtVars, scanVars, regVars>>

\* UARTx->DATA = (uint32_t)c << UART_DATA_RTX_LSB; and the return
PutcWrite ==
  /\ pc = "tx_write"
  /\ txfifo' = DataWrite(c)
  /\ seen' = "none"
  /\ pc' = "idle"
  /\ UNCHANGED <<tx, string_buf, c, wire, enq, convVars, fmtVars, scanVars, regVars>>

TxNext == PutcCall \/ PutcPoll \/ PutcWrite \/ HwDrain

SpecTx == IoInit /\ [][TxNext]_vars

\* a call neorv32_uart_getc(UARTx)
GetcCall ==
  /\ pc = "idle"
  /\ seen' = "none"
  /\ pc' = "rx_poll"
  /\ UNCHANGED <<tx, string_buf, c, txfifo, wire, enq, convVars, fmtVars, scanVars, regVars>>

\* the data register read after one read of the control register, whatever the flag
GetcPollOnce ==
  /\ pc = "rx_poll"
  /\ seen' = IF UART_CTRL_RX_NEMPTY \in CtrlRead THEN "data" ELSE "empty"
  /\ pc' = "rx_read"
  /\ UNCHANGED <<tx, string_buf, c, txfifo, wire, enq, convVars, fmtVars, scanVars, regVars>>

\* while (1) { if (UARTx->CTRL & (1<<UART_CTRL_RX_NEMPTY)) ..: one read of the register
GetcPoll ==
  /\ pc = "rx_poll"
  /\ seen' = IF UART_CTRL_RX_NEMPTY \in CtrlRead THEN "data" ELSE "empty"
  /\ pc' = IF UART_CTRL_RX_NEMPTY \in CtrlRead THEN "rx_read" ELSE "rx_poll"
  /\ UNCHANGED <<tx, string_buf, c, txfifo, wire, enq, convVars, fmtVars, scanVars, regVars>>

\* return (char)(UARTx->DATA >> UART_DATA_RTX_LSB);
GetcRead ==
  /\ pc = "rx_read"
  /\ IF rx # <<>>
       THEN c' = Head(rx) /\ rx' = Tail(rx)
       ELSE c' \in IoBytes /\ rx' = rx
  /\ taken' = Append(taken, c')
  /\ seen' = "none"
  /\ pc' = "idle"
  /\ UNCHANGED <<tx, string_buf, buffer, bp, length, max_size, echo, erased,
                 txfifo, wire, enq, convVars, fmtVars, regVars>>

RxNext == GetcCall \/ GetcPoll \/ GetcRead \/ HwReceive

SpecRx == IoInit /\ [][RxNext]_vars

(***************************************************************************)
(* What the claims are stated with.                                        *)
(***************************************************************************)
Range(s) == {s[k] : k \in DOMAIN s}

\* whether the memory m holds a terminator at or after index i
Terminated(m, i) == \E k \in DOMAIN m : k >= i /\ m[k] = NUL

\* the bytes of the memory m from index i up to the first terminator
RECURSIVE CStr(_, _)
CStr(m, i) ==
  IF i \notin DOMAIN m \/ m[i] = NUL THEN <<>> ELSE <<m[i]>> \o CStr(m, i + 1)

DecDigits == 48..57
HexLower == (48..57) \cup (97..102)
HexUpper == (48..57) \cup (65..70)

\* acc * base + d as a uint32_t, or NoU32 when it does not fit 32 bits
NoU32 == <<-1, -1>>
MulAdd(acc, base, d) ==
  LET lo == acc[2] * base + d
      hi == acc[1] * base + (lo \div Half)
  IN  IF acc = NoU32 \/ hi >= Half THEN NoU32 ELSE <<hi, lo % Half>>

\* the number a string of decimal digits denotes
RECURSIVE ParseDecFrom(_, _, _)
ParseDecFrom(s, k, acc) ==
  IF k > Len(s) THEN acc ELSE ParseDecFrom(s, k + 1, MulAdd(acc, 10, s[k] - 48))
ParseDec(s) == ParseDecFrom(s, 1, <<0, 0>>)

\* the number a string of hex digits of either case denotes
HexValue(ch) == IF ch \in DecDigits THEN ch - 48
                ELSE IF ch \in 97..102 THEN ch - 87 ELSE ch - 55
RECURSIVE ParseHexFrom(_, _, _)
ParseHexFrom(s, k, acc) ==
  IF k > Len(s) THEN acc ELSE ParseHexFrom(s, k + 1, MulAdd(acc, 16, HexValue(s[k])))
ParseHex(s) == ParseHexFrom(s, 1, <<0, 0>>)

\* a + b of two uint32_t, wrapped at 2^32
Add32(a, b) ==
  LET lo == a[2] + b[2]
  IN  <<(a[1] + b[1] + (lo \div Half)) % Half, lo % Half>>

\* s with every line-feed preceded by a carriage-return
RECURSIVE WithCrLf(_)
WithCrLf(s) ==
  IF s = <<>> THEN <<>>
  ELSE (IF Head(s) = LF THEN <<CR, LF>> ELSE <<Head(s)>>) \o WithCrLf(Tail(s))

NumLf(s) == Cardinality({k \in DOMAIN s : s[k] = LF})

(***************************************************************************)
(* C1.  For every unsigned 32-bit x the decimal converter leaves in res a  *)
(* zero-terminated string of 1 to 10 decimal digits that parses back to x  *)
(* and has no leading '0' unless it is exactly "0"; x = 0 gives "0".       *)
(***************************************************************************)
C1_DecimalRoundTrip ==
  pc = "itoa" =>
    LET s == CStr(string_buf, 0)
    IN  /\ Terminated(string_buf, 0)
        /\ Len(s) \in 1..10
        /\ \A k \in 1..Len(s) : s[k] \in DecDigits
        /\ ParseDec(s) = x
        /\ (s[1] = ZERO => s = <<ZERO>>)
        /\ (x = <<0, 0>> => s = <<ZERO>>)

C1_Witness ==
  pc = "itoa" /\ x = <<0, 0>> /\ string_buf[0] = ZERO /\ string_buf[1] = NUL

(***************************************************************************)
(* C2.  For every unsigned 32-bit x the hex converter writes exactly 8     *)
(* characters from 0-9a-f, most significant nibble first, a terminator at  *)
(* index 8, and the 8 characters parse back to x; zeros are not dropped.   *)
(***************************************************************************)
C2_HexRoundTrip ==
  pc = "tohex" =>
    LET s == [k \in 1..8 |-> string_buf[k - 1]]
    IN  /\ \A k \in 1..8 : s[k] \in HexLower
        /\ string_buf[8] = NUL
        /\ ParseHex(s) = x
        /\ (x = <<0, 0>> => \A k \in 1..8 : s[k] = ZERO)

C2_Witness ==
  pc = "tohex" /\ x = <<0, 255>>
  /\ CStr(string_buf, 0) = <<48, 48, 48, 48, 48, 48, 102, 102>>

(***************************************************************************)
(* C9.  The case-fold maps each byte 'a'..'z' within its len bytes to the  *)
(* matching capital and leaves every other byte as it was, so folding the  *)
(* result again changes nothing; applied to the hex converter's output as  *)
(* %X does, it leaves the same 8 digits with a-f as A-F, the terminator at *)
(* index 8, and no byte behind the 12-byte scratch is touched.             *)
(***************************************************************************)
Folded(b) == IF b \in 97..122 THEN b - 32 ELSE b

C9_CaseFold ==
  /\ pc \in {"fold", "fold2", "upper"} =>
       \A k \in DOMAIN string_buf :
         string_buf[k] = IF k < len THEN Folded(prev[k]) ELSE prev[k]
  /\ pc = "fold2" => string_buf = prev
  /\ pc = "upper" =>
       /\ len <= StringBufSize
       /\ \A k \in 0..7 : prev[k] \in HexLower /\ string_buf[k] \in HexUpper
       /\ ParseHex([k \in 1..8 |-> string_buf[k - 1]]) = x
       /\ string_buf[8] = NUL
       /\ \A k \in StringBufSize..StackTop : string_buf[k] = prev[k]

C9_Witness ==
  pc = "upper" /\ x = <<0, 255>>
  /\ CStr(string_buf, 0) = <<48, 48, 48, 48, 48, 48, 70, 70>>

(***************************************************************************)
(* C6.  A '%' followed by a character outside {s,c,d,i,u,x,X,p,%} sends    *)
(* exactly '%' and that character, consumes no argument, and the scan goes *)
(* on with the character after it; "%%" sends exactly one '%' and consumes *)
(* no argument.                                                            *)
(***************************************************************************)
C6_UnknownDirective ==
  [][/\ (InDirective /\ Dir \notin ArgDirectives \cup {PERCENT}) =>
          /\ tx' = tx \o <<PERCENT, Dir>>
          /\ ap' = ap /\ args' = args
          /\ fi' = fi + 2 /\ format' = format /\ pc' = "run"
     /\ (InDirective /\ Dir = PERCENT) =>
          /\ tx' = tx \o <<PERCENT>>
          /\ ap' = ap /\ args' = args
          /\ fi' = fi + 2 /\ format' = format /\ pc' = "run"]_vars

\* "%q" has just been scanned
C6_Witness ==
  /\ pc = "run" /\ fi = 3 /\ c = LowerQ
  /\ format[1] = PERCENT /\ format[2] = LowerQ
  /\ tx = <<PERCENT, LowerQ>> /\ ap = 1

(***************************************************************************)
(* C7.  For every signed 32-bit n given to %d or %i, the negation wrapping *)
(* at 32 bits, the engine sends '-' if and only if n < 0 and then the      *)
(* decimal converter's output for the magnitude of n, so that the text     *)
(* parses back to n, the minimum -2^31 included.                           *)
(***************************************************************************)
\* the digits are the magnitude of the int32_t with the bits n
IsMagnitude(neg, digits, n) ==
  /\ digits # <<>>
  /\ \A k \in 1..Len(digits) : digits[k] \in DecDigits
  /\ LET mag == ParseDec(digits)
     IN  /\ mag # NoU32
         /\ IF neg THEN IsNegative(n) /\ Add32(mag, n) = <<0, 0>>
                   ELSE ~IsNegative(n) /\ mag = n
         /\ digits = CStr(itoa(mag, [k \in 0..StackTop |-> NUL]), 0)

C7_SignedDecimal ==
  [][(InDirective /\ Dir \in {LowerI, LowerD} /\ pc' = "run") =>
       LET n   == args[ap]
           out == SubSeq(tx', Len(tx) + 1, Len(tx'))
           neg == out # <<>> /\ out[1] = MINUS
       IN  /\ tx' = tx \o out
           /\ neg <=> IsNegative(n)
           /\ IsMagnitude(neg, IF neg THEN Tail(out) ELSE out, n)]_vars

\* "%d" of -2^31 has sent "-2147483648"
C7_Witness ==
  /\ pc = "run" /\ fi = 3 /\ format[1] = PERCENT /\ format[2] = LowerD
  /\ args[1] = IntMin
  /\ tx = <<45, 50, 49, 52, 55, 52, 56, 51, 54, 52, 56>>

(***************************************************************************)
(* C8.  The engine consumes its arguments in directive order, one per      *)
(* directive among s,c,d,i,u,x,X,p, and what it has sent is the            *)
(* concatenation, in format order, of the literal text and each            *)
(* directive's expansion: %u the decimal converter's output, %x and %p the *)
(* 8-digit lowercase hex, %c the argument byte, %s the argument string.    *)
(***************************************************************************)
DecOut(v) == CStr(itoa(v, [k \in 0..StackTop |-> NUL]), 0)
HexOut(v) == CStr(tohex(v, [k \in 0..StackTop |-> NUL]), 0)
SignedOut(v) == IF IsNegative(v) THEN <<MINUS>> \o DecOut(Negate(v)) ELSE DecOut(v)

\* text as sent: as it is, or with line-feeds expanded as put_string does
Sent(s, crlf) == IF crlf THEN WithCrLf(s) ELSE s

\* what the directive d makes of the argument v
DirectiveOut(d, v, crlf) ==
  IF d = LowerS THEN Sent(CStr(StrMem(v), 1), crlf)
  ELSE IF d = LowerC THEN <<LowByte(v)>>
  ELSE IF d = LowerU THEN DecOut(v)
  ELSE IF d \in {LowerD, LowerI} THEN SignedOut(v)
  ELSE IF d = UpperX THEN [k \in 1..8 |-> Folded(HexOut(v)[k])]
  ELSE HexOut(v)

\* the expansion of the format bytes f[i] .. f[stop - 1] with the arguments a[k], ..
RECURSIVE Expansion(_, _, _, _, _, _)
Expansion(f, i, stop, a, k, crlf) ==
  IF i >= stop \/ i > Len(f) \/ f[i] = NUL THEN <<>>
  ELSE IF f[i] # PERCENT THEN Sent(<<f[i]>>, crlf) \o Expansion(f, i + 1, stop, a, k, crlf)
  ELSE IF i + 1 > Len(f) THEN <<>>
  ELSE IF f[i + 1] \in ArgDirectives
         THEN DirectiveOut(f[i + 1], a[k], crlf) \o Expansion(f, i + 2, stop, a, k + 1, crlf)
  ELSE IF f[i + 1] = PERCENT THEN <<PERCENT>> \o Expansion(f, i + 2, stop, a, k, crlf)
  ELSE <<PERCENT, f[i + 1]>> \o Expansion(f, i + 2, stop, a, k, crlf)

\* the number of argument directives among the format bytes f[i] .. f[stop - 1]
RECURSIVE NumArgDirectives(_, _, _)
NumArgDirectives(f, i, stop) ==
  IF i >= stop \/ i > Len(f) \/ f[i] = NUL THEN 0
  ELSE IF f[i] # PERCENT THEN NumArgDirectives(f, i + 1, stop)
  ELSE IF i + 1 > Len(f) THEN 0
  ELSE (IF f[i + 1] \in ArgDirectives THEN 1 ELSE 0) + NumArgDirectives(f, i + 2, stop)

\* the claim as written: literal text and %s strings sent as they are
C8_AsWritten ==
  pc \in {"run", "done"} /\ fi <= Len(format) + 1 =>
    /\ ap = 1 + NumArgDirectives(format, 1, fi)
    /\ tx = Expansion(format, 1, fi, args, 1, FALSE)

\* C8 amended: the same, with every line-feed of the literal text and of a %s
\* string sent as carriage-return, line-feed
C8_ExpansionInOrder ==
  pc \in {"run", "done"} /\ fi <= Len(format) + 1 =>
    /\ ap = 1 + NumArgDirectives(format, 1, fi)
    /\ tx = Expansion(format, 1, fi, args, 1, TRUE)

\* "%s%u" of the string "q\n" and the number 10 has sent "q\r\n10"
C8_Witness ==
  /\ pc = "done"
  /\ format = <<PERCENT, LowerS, PERCENT, LowerU, NUL>>
  /\ args = <<PtrLine, <<0, 10>>>>
  /\ tx = <<LowerQ, CR, LF, 49, 48>>

(***************************************************************************)
(* C10.  put_string sends the bytes of a zero-terminated string in order,  *)
(* each line-feed as carriage-return then line-feed and every other byte   *)
(* as it is, nothing for the terminator: len(s) + (line-feeds in s) bytes. *)
(* The format engine sends its non-directive characters the same way.      *)
(***************************************************************************)
C10_PutString ==
  /\ [](pc = "puts" =>
          LET s == CStr(str, 1)
          IN  /\ tx = WithCrLf(s)
              /\ Len(tx) = Len(s) + NumLf(s)
              /\ NUL \notin Range(tx))
  /\ [][(pc = "run" /\ fi <= Len(format) /\ Cur \notin {NUL, PERCENT}) =>
          /\ tx' = tx \o WithCrLf(<<Cur>>)
          /\ fi' = fi + 1 /\ ap' = ap]_vars

\* put_string of "a\n" has sent "a\r\n"
C10_Witness ==
  pc = "puts" /\ str = <<LowerA, LF, NUL, LowerA>> /\ tx = <<LowerA, CR, LF>>

(***************************************************************************)
(* The line scanner's claims.                                              *)
(***************************************************************************)
IsPrintable(b) == b >= 32 /\ b <= 126
NumPrintable(s) == Cardinality({k \in DOMAIN s : IsPrintable(s[k])})

\* the scanner's bounds: the length within 0..capacity-1, the write position at
\* start + length, the terminator inside the buffer and the byte behind the
\* buffer never written
ScanInBounds ==
  /\ 0 <= length /\ length <= max_size - 1
  /\ bp = length
  /\ buffer[max_size] = Undef
  /\ pc = "done" => buffer[bp] = NUL

\* a step that takes a backspace while the length is 0 changes neither the
\* length nor the write position (nor the buffer, nor what was sent)
BackspaceOnEmpty ==
  (pc = "scan" /\ rx # <<>> /\ Head(rx) = BS /\ length = 0 /\ taken' # taken) =>
     length' = 0 /\ bp' = bp /\ buffer' = buffer /\ tx' = tx

(***************************************************************************)
(* C3.  In every reachable state of the line scanner 0 <= length <=        *)
(* capacity - 1 and the write position is start + length, so every index   *)
(* written, the terminator's included, lies in the buffer; a backspace     *)
(* taken at length 0 changes neither; and when more than capacity - 1      *)
(* printable bytes arrive before the carriage return the returned length   *)
(* is capacity - 1.                                                        *)
(***************************************************************************)
\* the claim as written
C3_AsWritten ==
  /\ []ScanInBounds
  /\ [][BackspaceOnEmpty]_vars
  /\ []((pc = "done" /\ NumPrintable(taken) > max_size - 1) => length = max_size - 1)

\* C3 amended: the last part holds when no backspace removed a character
C3_ScanBounds ==
  /\ []ScanInBounds
  /\ [][BackspaceOnEmpty]_vars
  /\ []((pc = "done" /\ NumPrintable(taken) > max_size - 1 /\ erased = 0) =>
          length = max_size - 1)

\* capacity 3, three printable bytes and the carriage return: length 2
C3_Witness ==
  /\ pc = "done" /\ max_size = 3
  /\ taken = <<SPACE, TILDE, SPACE, CR>>
  /\ length = 2 /\ erased = 0

(***************************************************************************)
(* C4.  The scanner's result is that of a reference line editor run on the *)
(* bytes up to the first carriage return: a printable byte is appended     *)
(* while length < capacity - 1, a backspace removes the last accepted byte *)
(* if there is one, any other byte is ignored; on return the buffer holds  *)
(* the surviving bytes in arrival order and a terminator, the return value *)
(* is their number, and the buffer holds printable bytes only.             *)
(***************************************************************************)
RECURSIVE LineEditor(_, _)
LineEditor(s, cap) ==
  IF s = <<>> THEN <<>>
  ELSE LET line == LineEditor(SubSeq(s, 1, Len(s) - 1), cap)
           b    == s[Len(s)]
       IN  IF b = 8 THEN (IF line = <<>> THEN line ELSE SubSeq(line, 1, Len(line) - 1))
           ELSE IF IsPrintable(b) /\ Len(line) < cap - 1 THEN Append(line, b)
           ELSE line

\* the bytes taken before the carriage return
BeforeReturn(s) == IF s # <<>> /\ s[Len(s)] = CR THEN SubSeq(s, 1, Len(s) - 1) ELSE s

C4_LineEditor ==
  LET line == LineEditor(BeforeReturn(taken), max_size)
  IN  /\ length = Len(line)
      /\ \A k \in 1..Len(line) : buffer[k - 1] = line[k]
      /\ pc = "done" =>
           /\ CStr(buffer, 0) = line
           /\ buffer[Len(line)] = NUL
           /\ \A k \in 1..Len(line) : IsPrintable(line[k])

\* a, b, backspace, c, carriage return: returns 2 with "ac" in the buffer
C4_Witness ==
  /\ pc = "done" /\ max_size = 3
  /\ taken = <<SPACE, TILDE, BS, TILDE, CR>>
  /\ length = 2
  /\ buffer[0] = SPACE /\ buffer[1] = TILDE /\ buffer[2] = NUL

(***************************************************************************)
(* C5.  The scanner returns exactly when it takes the first carriage       *)
(* return, whatever the buffer holds: it takes no byte after it, writes    *)
(* the terminator at the write position before returning, never returns    *)
(* without a carriage return; and once the receiver holds a carriage       *)
(* return the scanner eventually returns.                                  *)
(***************************************************************************)
C5_ReturnsOnCarriageReturn ==
  /\ [](pc = "done" <=> CR \in Range(taken))
  /\ [](pc = "done" => taken[Len(taken)] = CR /\ CR \notin Range(BeforeReturn(taken)))
  /\ [][(pc = "scan" /\ pc' = "done") =>
          /\ Head(rx) = CR
          /\ buffer' = [buffer EXCEPT ![bp] = NUL]
          /\ bp' = bp /\ length' = length]_vars
  /\ [][pc = "done" => (pc' = "done" /\ taken' = taken /\ buffer' = buffer)]_vars
  /\ ((\E k \in DOMAIN rx : rx[k] = CR) ~> pc = "done")

\* returned with the buffer full while the receiver already holds the next byte
C5_Witness ==
  /\ pc = "done" /\ max_size = 3 /\ length = 2
  /\ rx # <<>>

(***************************************************************************)
(* C11.  Every line-feed the format engine transmits is immediately        *)
(* preceded by a carriage-return, whichever part of the expansion it comes *)
(* from: literal text, a %s argument, a %c argument or the character after *)
(* an unrecognised '%'.                                                    *)
(***************************************************************************)
\* the positions of the line-feeds of s that no carriage-return precedes
BareLf(s) == {k \in 1..Len(s) : s[k] = LF /\ (k = 1 \/ s[k - 1] # CR)}

\* the bytes a step appends to the transmitted stream
Appended == SubSeq(tx', Len(tx) + 1, Len(tx'))

\* how many line-feeds the walk over f from index i on takes from a %c argument
\* or from the character after an unrecognised '%' (a[k] is the next argument)
RECURSIVE RawLineFeeds(_, _, _, _)
RawLineFeeds(f, i, a, k) ==
  IF i > Len(f) \/ f[i] = NUL THEN 0
  ELSE IF f[i] # PERCENT THEN RawLineFeeds(f, i + 1, a, k)
  ELSE IF i + 1 > Len(f) THEN 0
  ELSE IF f[i + 1] = LowerC
         THEN (IF LowByte(a[k]) = LF THEN 1 ELSE 0) + RawLineFeeds(f, i + 2, a, k + 1)
  ELSE IF f[i + 1] \in ArgDirectives THEN RawLineFeeds(f, i + 2, a, k + 1)
  ELSE (IF f[i + 1] = LF THEN 1 ELSE 0) + RawLineFeeds(f, i + 2, a, k)

\* the claim as written
C11_AsWritten == pc \in {"run", "done"} => BareLf(tx) = {}

\* C11 amended: a line-feed of the literal text or of a %s string is sent directly
\* after a carriage-return; the byte of a %c argument and the character after an
\* unrecognised '%' are sent as they are, a line-feed among them with no
\* carriage-return; a call with no such line-feed sends none without its
\* carriage-return
C11_LineFeeds ==
  /\ [][pc = "run" /\ fi <= Len(format) =>
          /\ SubSeq(tx', 1, Len(tx)) = tx
          /\ IF InDirective /\ Dir = LowerC THEN Appended = <<LowByte(args[ap])>>
             ELSE IF InDirective /\ Dir \notin ArgDirectives \cup {PERCENT}
                    THEN Appended = <<PERCENT, Dir>>
             ELSE BareLf(Appended) = {}]_vars
  /\ [](pc \in {"run", "done"} /\ RawLineFeeds(format, 1, args, 1) = 0 =>
          BareLf(tx) = {})

\* "\n%c" of the byte 10 has sent carriage-return, line-feed, line-feed
C11_Witness ==
  /\ pc = "done"
  /\ format = <<LF, PERCENT, LowerC, NUL>>
  /\ args[1] = <<0, 10>>
  /\ tx = <<CR, LF, LF>>

(***************************************************************************)
(* C17.  The format engine reads the format bytes strictly left to right,  *)
(* each at most once, stops when it reaches the terminator, never reads an *)
(* index beyond the terminator and never transmits a NUL byte, also when   *)
(* the last character before the terminator is '%'.                        *)
(***************************************************************************)
\* the index of the terminator of the string that starts the memory f
FirstNul(f) == CHOOSE k \in 1..Len(f) : f[k] = NUL /\ \A j \in 1..(k - 1) : f[j] # NUL

\* the claim: the next read is never behind the terminator, every step moves the
\* pointer on by the one or two bytes it reads, and the call returns having read
\* the terminator last and having sent no NUL
C17_ReadsUpToTerminator ==
  /\ [](pc = "run" => fi <= FirstNul(format))
  /\ [](pc = "done" => fi = FirstNul(format) + 1 /\ NUL \notin Range(tx))
  /\ [][pc = "run" /\ pc' \in {"run", "done"} => fi' \in {fi + 1, fi + 2}]_vars

(***************************************************************************)
(* C15.  With echo disabled the line scanner transmits nothing.  With echo *)
(* enabled the transmitted stream is, in input order, each accepted        *)
(* printable byte itself and 0x08 0x20 0x08 for each backspace that        *)
(* removed a character; a backspace on the empty buffer, a dropped byte    *)
(* and the carriage-return send nothing.  A terminal applying the stream   *)
(* shows exactly the buffer contents.                                      *)
(***************************************************************************)
\* the echo of the input bytes s[k], .. when n characters are held, capacity cap
RECURSIVE EchoFrom(_, _, _, _)
EchoFrom(s, k, n, cap) ==
  IF k > Len(s) \/ s[k] = CR THEN <<>>
  ELSE IF s[k] = BS
         THEN IF n > 0 THEN <<BS, SPACE, BS>> \o EchoFrom(s, k + 1, n - 1, cap)
                       ELSE EchoFrom(s, k + 1, n, cap)
  ELSE IF IsPrintable(s[k]) /\ n < cap - 1
         THEN <<s[k]>> \o EchoFrom(s, k + 1, n + 1, cap)
  ELSE EchoFrom(s, k + 1, n, cap)

\* a terminal line after the bytes s: the cells written and the cursor's column;
\* a backspace moves the cursor left, any other byte is written under the cursor
RECURSIVE Terminal(_)
Terminal(s) ==
  IF s = <<>> THEN [cells |-> <<>>, cur |-> 0]
  ELSE LET t == Terminal(SubSeq(s, 1, Len(s) - 1))
           b == s[Len(s)]
       IN  IF b = BS THEN [t EXCEPT !.cur = IF t.cur > 0 THEN t.cur - 1 ELSE 0]
           ELSE IF t.cur < Len(t.cells)
                  THEN [cells |-> [t.cells EXCEPT ![t.cur + 1] = b], cur |-> t.cur + 1]
           ELSE [cells |-> Append(t.cells, b), cur |-> t.cur + 1]

C15_Echo ==
  /\ ~echo => tx = <<>>
  /\ echo =>
       /\ tx = EchoFrom(taken, 1, 0, max_size)
       /\ LET t == Terminal(tx)
          IN  /\ t.cur = length
              /\ \A k \in 1..length : t.cells[k] = buffer[k - 1]
              /\ \A k \in (length + 1)..Len(t.cells) : t.cells[k] = SPACE

\* '~', two backspaces, a space and the carriage-return with echo: the stream is
\* '~', the erase sequence and the space; the second backspace sent nothing
C15_Witness ==
  /\ echo /\ pc = "done"
  /\ taken = <<TILDE, BS, BS, SPACE, CR>>
  /\ tx = <<TILDE, BS, SPACE, BS, SPACE>>
  /\ length = 1 /\ buffer[0] = SPACE

(***************************************************************************)
(* C12.  For every system clock and baud rate the prescaler search of      *)
(* neorv32_uart_setup ends with a prescaler-select in 0..7 and a divisor   *)
(* in [1, 1024), and the one write of the control register stores that     *)
(* prescaler-select in the prescaler field and divisor - 1 in the baud     *)
(* field, neither changed by the field masks.                              *)
(***************************************************************************)
\* the number a register value holds in the bits base, base + 1, .. base + 10
RECURSIVE FieldFrom(_, _, _)
FieldFrom(r, base, k) ==
  IF k > 10 THEN 0
  ELSE (IF <<base, k>> \in r THEN 2 ^ k ELSE 0) + FieldFrom(r, base, k + 1)
FieldValue(r, base) == FieldFrom(r, base, 0)

\* the step that ends the search and writes the register
SearchEnds == pc = "search" /\ pc' = "ready"

\* every pass of the search makes the divisor smaller, and the write stores
\* the pair the search has found (checked on the representable pairs, where the
\* search does end within both ranges)
C12_PrescalerSearch ==
  /\ [][pc = "search" /\ pc' = "search" =>
          Geq32(baud_div, baud_div') /\ baud_div' # baud_div]_vars
  /\ [][SearchEnds =>
          /\ prsc_sel \in 0..7
          /\ baud_div[1] = 0 /\ baud_div[2] \in 1..1023
          /\ FieldValue(CTRL', UART_CTRL_PRSC0) = prsc_sel
          /\ FieldValue(CTRL', UART_CTRL_BAUD0) = baud_div[2] - 1]_vars

(***************************************************************************)
(* C16.  Setup replaces the whole control register: whatever it held and   *)
(* whatever irq_mask is, the value written has the enable bit set and,     *)
(* apart from the enable, prescaler and baud fields, only the irq_mask     *)
(* bits on the 5 interrupt-enable positions; every other bit, hardware     *)
(* flow control among them, is zero.                                       *)
(***************************************************************************)
PrscField == {<<UART_CTRL_PRSC0, k>> : k \in 0..2}
BaudField == {<<UART_CTRL_BAUD0, k>> : k \in 0..9}

C16_SetupReplaces ==
  /\ pc \in {"divide", "search"} => CTRL = {}
  /\ pc = "ready" /\ toggles = <<>> =>
       /\ UART_CTRL_EN \in CTRL
       /\ CTRL \ ({UART_CTRL_EN} \cup PrscField \cup BaudField) = irq_mask \cap IrqBits
       /\ UART_CTRL_HWFC_EN \notin CTRL

\* a setup with flow-control, enable, field and interrupt bits in irq_mask has
\* written the one interrupt-enable bit among them and no flow control
C16_Witness ==
  /\ pc = "ready" /\ toggles = <<>>
  /\ UART_CTRL_HWFC_EN \in irq_mask /\ <<UART_CTRL_IRQ_RX_NEMPTY, 4>> \in irq_mask
  /\ <<UART_CTRL_IRQ_RX_NEMPTY, 4>> \in CTRL
  /\ UART_CTRL_HWFC_EN \notin CTRL

(***************************************************************************)
(* C18.  Each of enable, disable, rtscts_enable and rtscts_disable changes *)
(* at most its own bit of the control register and is idempotent; after    *)
(* any sequence of them following a setup the prescaler, baud and          *)
(* interrupt-enable fields hold what setup wrote, and the enable and       *)
(* flow-control bits reflect the last toggle applied to each.              *)
(***************************************************************************)
\* the last of the calls s that is among names, "none" if there is none
RECURSIVE LastAmong(_, _)
LastAmong(s, names) ==
  IF s = <<>> THEN "none"
  ELSE IF s[Len(s)] \in names THEN s[Len(s)]
  ELSE LastAmong(SubSeq(s, 1, Len(s) - 1), names)

OwnBit(name) == IF name \in {"enable", "disable"} THEN UART_CTRL_EN ELSE UART_CTRL_HWFC_EN

C18_Toggles ==
  /\ [][Len(toggles') = Len(toggles) + 1 =>
          LET name == toggles'[Len(toggles')]
          IN  /\ CTRL' \ {OwnBit(name)} = CTRL \ {OwnBit(name)}
              /\ OwnBit(name) \in CTRL' <=> name \in {"enable", "rtscts_enable"}]_vars
  /\ [](/\ neorv32_uart_enable(neorv32_uart_enable(CTRL)) = neorv32_uart_enable(CTRL)
        /\ neorv32_uart_disable(neorv32_uart_disable(CTRL)) = neorv32_uart_disable(CTRL)
        /\ neorv32_uart_rtscts_enable(neorv32_uart_rtscts_enable(CTRL))
             = neorv32_uart_rtscts_enable(CTRL)
        /\ neorv32_uart_rtscts_disable(neorv32_uart_rtscts_disable(CTRL))
             = neorv32_uart_rtscts_disable(CTRL))
  /\ [](pc = "ready" =>
          /\ FieldValue(CTRL, UART_CTRL_PRSC0) = FieldValue(tmp, UART_CTRL_PRSC0)
          /\ FieldValue(CTRL, UART_CTRL_BAUD0) = FieldValue(tmp, UART_CTRL_BAUD0)
          /\ CTRL \cap IrqBits = irq_mask \cap IrqBits
          /\ UART_CTRL_EN \in CTRL
               <=> LastAmong(toggles, {"enable", "disable"}) \in {"none", "enable"}
          /\ UART_CTRL_HWFC_EN \in CTRL
               <=> LastAmong(toggles, {"rtscts_enable", "rtscts_disable"}) = "rtscts_enable")

\* after a setup, rtscts_enable and then disable: flow control on, the unit off,
\* the fields as written
C18_Witness ==
  /\ pc = "ready"
  /\ toggles = <<"rtscts_enable", "disable">>
  /\ irq_mask = IrqBits
  /\ CTRL = (tmp \ {UART_CTRL_EN}) \cup {UART_CTRL_HWFC_EN}

(***************************************************************************)
(* C19.  Whenever the search ends with prescaler-select p in 0..7 and      *)
(* divisor d >= 1, d is floor(clock / (tap(p) * baud)) for the divider     *)
(* taps 2, 4, 8, 64, 128, 1024, 2048, 4096, that is                        *)
(* d * tap(p) * baud <= clock < (d + 1) * tap(p) * baud, and p is the      *)
(* smallest prescaler-select whose shifted divisor is below 0x3ff.         *)
(***************************************************************************)
\* log2 of the divider tap of the prescaler-select p
TapLog == <<1, 2, 3, 6, 7, 10, 11, 12>>

\* floor(clock / (2^n * baud)), dividing by the power of two first
FloorBy(n) == DivU(Shr(clock, n), baudrate)

\* the pair the search has ended with is the floor, under the smallest prescaler
DivisorIsFloor ==
  /\ baudrate # <<0, 0>>
  /\ baud_div = FloorBy(TapLog[prsc_sel + 1])
  /\ \A q \in 0..(prsc_sel - 1) : Geq32(FloorBy(TapLog[q + 1]), <<0, BaudMask>>)
  /\ ~Geq32(FloorBy(TapLog[prsc_sel + 1]), <<0, BaudMask>>)

\* the claim as written
C19_AsWritten ==
  [][SearchEnds /\ prsc_sel \in 0..7 /\ Geq32(baud_div, <<0, 1>>) => DivisorIsFloor]_vars

\* C19 amended: the same for the baud rates below 2^31, those for which
\* 2*baudrate does not wrap at 32 bits
C19_DivisorIsFloor ==
  [][/\ SearchEnds /\ prsc_sel \in 0..7 /\ Geq32(baud_div, <<0, 1>>)
     /\ ~Geq32(baudrate, <<SignBit, 0>>)
     => DivisorIsFloor]_vars

\* 100 MHz and 300 baud: prescaler-select 5 (tap 1024) and divisor 325
C19_Witness ==
  /\ pc = "ready"
  /\ clock = <<1525, 57600>> /\ baudrate = <<0, 300>>
  /\ prsc_sel = 5 /\ baud_div = <<0, 325>>

(***************************************************************************)
(* C13.  neorv32_uart_putc re-reads the control register on every poll and *)
(* writes the data register only directly after a read that found TX-full  *)
(* clear, once per call; so the transmit FIFO never holds more than its    *)
(* depth, no byte is lost or duplicated, and the bytes leave the           *)
(* transmitter in call order.                                              *)
(***************************************************************************)
\* the byte of the call under way, not yet written
Pending == IF pc \in {"tx_poll", "tx_write"} THEN <<c>> ELSE <<>>

C13_PutByte ==
  /\ [](Len(txfifo) <= TxDepth)
  /\ [](wire \o txfifo \o Pending = tx)
  /\ [][pc = "tx_poll" /\ wire' = wire /\ tx' = tx =>
          /\ seen' = IF Len(txfifo) >= TxDepth THEN "full" ELSE "free"
          /\ pc' = IF seen' = "free" THEN "tx_write" ELSE "tx_poll"
          /\ txfifo' = txfifo]_vars
  /\ [][txfifo' # txfifo /\ wire' = wire =>
          /\ pc = "tx_write" /\ seen = "free"
          /\ txfifo' = Append(txfifo, c)
          /\ pc' = "idle"]_vars

\* a call that has read the flag set, the FIFO full, earlier bytes on the wire
C13_Witness ==
  /\ pc = "tx_poll" /\ seen = "full"
  /\ Len(txfifo) = TxDepth
  /\ wire # <<>>
  /\ Len(tx) = MaxPut

====
